---------------------------- MODULE Spec2Model ----------------------------
(***************************************************************************)
(* Authorized-origin validation of the dashboard's auth page               *)
(* (client/www/components/dash/AppAuth.tsx).                               *)
(*                                                                         *)
(* A string is a sequence of one-character strings, so that the URL        *)
(* parser behind `new URL(originParam)` can be modelled character by       *)
(* character.  The parser follows the WHATWG URL standard for an input     *)
(* parsed without a base URL, restricted to the characters of Alphabet.    *)
(***************************************************************************)
EXTENDS Integers, Sequences, FiniteSets, TLC

(***************************************************************************)
(* Characters                                                              *)
(***************************************************************************)
LowerSeq == << "a", "b", "c", "d", "e", "f", "g", "h", "i", "j", "k", "l", "m",
               "n", "o", "p", "q", "r", "s", "t", "u", "v", "w", "x", "y", "z" >>

UpperSeq == << "A", "B", "C", "D", "E", "F", "G", "H", "I", "J", "K", "L", "M",
               "N", "O", "P", "Q", "R", "S", "T", "U", "V", "W", "X", "Y", "Z" >>

DigitSeq == << "0", "1", "2", "3", "4", "5", "6", "7", "8", "9" >>

Range(f) == { f[i] : i \in DOMAIN f }

Lower == Range(LowerSeq)

Upper == Range(UpperSeq)

Digit == Range(DigitSeq)

Alpha == Lower \cup Upper

\* The characters a modelled string may hold.
Alphabet == Alpha \cup Digit \cup { ":", "/", ".", "?", "#", "@", " ", "+", "-" }

\* With(e, F) is F(e), with e evaluated once, before F is applied to it.
With(e, F(_)) == CHOOSE r \in { F(x) : x \in { e } } : TRUE

IndexIn(seq, c) == CHOOSE i \in DOMAIN seq : seq[i] = c

\* String.prototype.toLowerCase on one ASCII character.
ToLowerChar(c) == IF c \in Upper THEN LowerSeq[IndexIn(UpperSeq, c)] ELSE c

ToLower(s) == With(s, LAMBDA v : [ i \in DOMAIN v |-> ToLowerChar(v[i]) ])

Min(I) == CHOOSE i \in I : \A j \in I : i <= j

Max(I) == CHOOSE i \in I : \A j \in I : j <= i

\* The positions of s that hold a character of set S.
Positions(s, S) == With(s, LAMBDA v : { i \in DOMAIN v : v[i] \in S })

\* Position of the first character of s that is in set S, Len(s) + 1 if none.
FirstIn(s, S) ==
    With(Positions(s, S), LAMBDA I : IF I = {} THEN Len(s) + 1 ELSE Min(I))

\* Position of the last character of s that is in set S, 0 if none.
LastIn(s, S) ==
    With(Positions(s, S), LAMBDA I : IF I = {} THEN 0 ELSE Max(I))

From(s, i) == With(s, LAMBDA v : SubSeq(v, i, Len(v)))

StartsWith(s, p) == With(s, LAMBDA v : Len(v) >= Len(p) /\ SubSeq(v, 1, Len(p)) = p)

(***************************************************************************)
(* Numbers written in a string                                             *)
(***************************************************************************)
DigitValue(c) ==
    IF c \in Digit THEN IndexIn(DigitSeq, c) - 1
    ELSE IndexIn(LowerSeq, ToLowerChar(c)) + 9

IsDigitOfRadix(c, radix) ==
    /\ c \in Digit \cup { "a", "b", "c", "d", "e", "f", "A", "B", "C", "D", "E", "F" }
    /\ DigitValue(c) < radix

RECURSIVE Power(_, _)
Power(b, e) == IF e = 0 THEN 1 ELSE b * Power(b, e - 1)

\* The value of the digits of s, a string of digits of the radix.
ValueOf(s, radix) ==
    With(s, LAMBDA v :
        LET term[i \in 0..Len(v)] ==
                IF i = 0 THEN 0 ELSE term[i - 1] * radix + DigitValue(v[i])
        IN  term[Len(v)])

\* s without its leading zeros, the last one kept.
StripZeros(s) ==
    With(s, LAMBDA v :
        With(Positions(v, (Alpha \cup Digit) \ { "0" }), LAMBDA I :
            IF I = {} THEN << "0" >> ELSE From(v, Min(I))))

\* The value of a non-empty string of digits of the radix.  Values are kept
\* below 2^31: a longer number is reported as 2^31 - 1, which is above every
\* port, and is treated as above every IPv4 address (the few ten-digit
\* decimal numbers below 2^32 are outside the modelled inputs).
ParseInt(s, radix) ==
    With(StripZeros(s), LAMBDA t :
        LET most == IF radix = 10 THEN 9 ELSE IF radix = 16 THEN 7 ELSE 10
        IN  IF Len(t) > most THEN 2147483647 ELSE ValueOf(t, radix))

\* Number.prototype.toString, base 10, for n >= 0.
RECURSIVE NatToStr(_)
NatToStr(n) ==
    With(n, LAMBDA v :
        IF v < 10 THEN << DigitSeq[v + 1] >>
        ELSE Append(NatToStr(v \div 10), DigitSeq[(v % 10) + 1]))

(***************************************************************************)
(* Words of the source                                                     *)
(***************************************************************************)
Http == << "h", "t", "t", "p" >>

Https == << "h", "t", "t", "p", "s" >>

Ftp == << "f", "t", "p" >>

Ws == << "w", "s" >>

Wss == << "w", "s", "s" >>

File == << "f", "i", "l", "e" >>

Localhost == << "l", "o", "c", "a", "l", "h", "o", "s", "t" >>

\* A fallback that would prepend 'https://' instead.
SecurePrefix == Https \o << ":", "/", "/" >>

\* The prefix of the template string `http://${originParam}`.
HttpPrefix == Http \o << ":", "/", "/" >>

\* The suffix of the template string `${origin.params[0]}://`.
SchemeSuffix == << ":", "/", "/" >>

VercelApp == << "v", "e", "r", "c", "e", "l", ".", "a", "p", "p" >>

(***************************************************************************)
(* new URL(input): the host parser                                         *)
(***************************************************************************)
Failure == [ ok |-> FALSE ]

\* String.prototype.split('.') (also the standard's "strictly split").
RECURSIVE Split(_)
Split(s) ==
    With(s, LAMBDA v :
        With(FirstIn(v, { "." }), LAMBDA d :
            IF d > Len(v) THEN << v >>
            ELSE << SubSeq(v, 1, d - 1) >> \o Split(From(v, d + 1))))

\* The parts the IPv4 parser and the ends-in-a-number checker look at: a
\* trailing empty part is dropped when it is not the only one.
Ipv4Parts(s) ==
    With(Split(s), LAMBDA parts :
        IF parts[Len(parts)] = << >> /\ Len(parts) > 1
        THEN SubSeq(parts, 1, Len(parts) - 1) ELSE parts)

\* The IPv4 number parser: a number, or -1 for failure.
Ipv4Number(part) ==
    With(part, LAMBDA p :
        LET hex == Len(p) >= 2 /\ p[1] = "0" /\ p[2] \in { "x", "X" }
            oct == ~hex /\ Len(p) >= 2 /\ p[1] = "0"
            radix == IF hex THEN 16 ELSE IF oct THEN 8 ELSE 10
        IN  With(IF hex THEN From(p, 3) ELSE IF oct THEN From(p, 2) ELSE p, LAMBDA rest :
                IF p = << >> THEN -1
                ELSE IF rest = << >> THEN 0
                ELSE IF \E i \in DOMAIN rest : ~IsDigitOfRadix(rest[i], radix) THEN -1
                ELSE ParseInt(rest, radix)))

EndsInNumber(s) ==
    With(Ipv4Parts(s), LAMBDA parts :
        With(parts[Len(parts)], LAMBDA last :
            /\ last # << >>
            /\ \/ \A i \in DOMAIN last : last[i] \in Digit
               \/ Ipv4Number(last) # -1))

\* The IPv4 serializer, on the four bytes of an address.
SerializeIpv4(byte) ==
    NatToStr(byte[1]) \o << "." >> \o NatToStr(byte[2]) \o << "." >>
        \o NatToStr(byte[3]) \o << "." >> \o NatToStr(byte[4])

\* The IPv4 parser followed by the IPv4 serializer.
ParseIpv4(s) ==
    With(Ipv4Parts(s), LAMBDA parts :
        With([ i \in 1..Len(parts) |-> Ipv4Number(parts[i]) ], LAMBDA numbers :
            LET n == Len(numbers)
                last == numbers[n]
            IN  IF n > 4 THEN Failure
                ELSE IF \E i \in 1..n : numbers[i] = -1 THEN Failure
                ELSE IF \E i \in 1..(n - 1) : numbers[i] > 255 THEN Failure
                \* 256^(5 - n) is 2^32 for n = 1, which no kept value reaches
                ELSE IF n = 1 /\ last = 2147483647 THEN Failure
                ELSE IF n > 1 /\ last >= Power(256, 5 - n) THEN Failure
                ELSE [ ok |-> TRUE,
                       host |-> SerializeIpv4(
                           [ k \in 1..4 |-> IF k < n THEN numbers[k]
                                            ELSE (last \div Power(256, 4 - k)) % 256 ]) ]))

\* Forbidden host code points, and the forbidden domain code points beyond
\* them (the C0 controls and DEL are not characters of Alphabet).
ForbiddenHost == { " ", "#", "/", ":", "<", ">", "?", "@", "[", "\\", "]", "^", "|" }

ForbiddenDomain == ForbiddenHost \cup { "%" }

\* The host parser.  An opaque host (a scheme that is not special) is kept as
\* written; a domain is lower-cased (domain to ASCII, on ASCII input) and, when
\* it ends in a number, read as an IPv4 address.
ParseHost(s, isOpaque) ==
    IF isOpaque
    THEN With(s, LAMBDA v :
             IF \E i \in DOMAIN v : v[i] \in ForbiddenHost THEN Failure
             ELSE [ ok |-> TRUE, host |-> v ])
    ELSE With(ToLower(s), LAMBDA domain :
             IF domain = << >> THEN Failure
             ELSE IF \E i \in DOMAIN domain : domain[i] \in ForbiddenDomain THEN Failure
             ELSE IF EndsInNumber(domain) THEN ParseIpv4(domain)
             ELSE [ ok |-> TRUE, host |-> domain ])

(***************************************************************************)
(* new URL(input): the parser, for an input without a base URL             *)
(***************************************************************************)
\* Leading and trailing C0 controls and spaces are removed first (of these,
\* Alphabet holds the space).
Strip(input) ==
    With(input, LAMBDA v :
        With(Positions(v, Alphabet \ { " " }), LAMBDA I :
            IF I = {} THEN << >> ELSE SubSeq(v, Min(I), Max(I))))

SchemeChar == Alpha \cup Digit \cup { "+", "-", "." }

IsSpecial(scheme) == scheme \in { Http, Https, Ftp, Ws, Wss, File }

\* The scheme's default port, as url.port would write it.
DefaultPort(scheme) ==
    IF scheme \in { Http, Ws } THEN << "8", "0" >>
    ELSE IF scheme \in { Https, Wss } THEN << "4", "4", "3" >>
    ELSE IF scheme = Ftp THEN << "2", "1" >>
    ELSE << >>

\* A parsed URL, as far as the code reads it: protocol is scheme + ':',
\* hostname is '' for a URL without a host, port is '' for a URL whose port
\* is null.
ParsedURL(scheme, hostname, port) ==
    [ ok |-> TRUE, scheme |-> scheme, hostname |-> hostname, port |-> port ]

\* The slashes and backslashes a special scheme skips before its authority.
SkipSlashes(s) ==
    With(s, LAMBDA v : From(v, FirstIn(v, Alphabet \ { "/", "\\" })))

\* Port state: the digits after the host's ':'.
ParsePort(scheme, hostname, digits) ==
    IF \E i \in DOMAIN digits : digits[i] \notin Digit THEN Failure
    ELSE IF digits = << >> THEN ParsedURL(scheme, hostname, << >>)
    ELSE With(ParseInt(digits, 10), LAMBDA port :
             IF port > 65535 THEN Failure
             ELSE IF NatToStr(port) = DefaultPort(scheme)
                  THEN ParsedURL(scheme, hostname, << >>)
                  ELSE ParsedURL(scheme, hostname, NatToStr(port)))

\* Host state and port state, on the authority's text after its last '@'.
ParseHostPort(scheme, hostport) ==
    With(FirstIn(hostport, { ":" }), LAMBDA colon :
        IF colon <= Len(hostport)
        THEN IF colon = 1 THEN Failure
             ELSE With(ParseHost(SubSeq(hostport, 1, colon - 1), ~IsSpecial(scheme)), LAMBDA h :
                      IF ~h.ok THEN Failure
                      ELSE With(From(hostport, colon + 1), LAMBDA digits :
                               ParsePort(scheme, h.host, digits)))
        ELSE IF IsSpecial(scheme) /\ hostport = << >> THEN Failure
        ELSE With(ParseHost(hostport, ~IsSpecial(scheme)), LAMBDA h :
                 IF ~h.ok THEN Failure ELSE ParsedURL(scheme, h.host, << >>)))

\* Authority state, on what follows the slashes: the authority ends at the
\* first '/', '?' or '#' (or '\' of a special scheme); what precedes its last
\* '@' is the credentials.
ParseAuthority(scheme, rest) ==
    With(rest, LAMBDA r :
        With(SubSeq(r, 1, FirstIn(r, { "/", "?", "#" }
                                      \cup (IF IsSpecial(scheme) THEN { "\\" } ELSE {})) - 1),
             LAMBDA authority :
                With(LastIn(authority, { "@" }), LAMBDA at :
                    With(From(authority, at + 1), LAMBDA hostport :
                        IF at > 0 /\ hostport = << >> THEN Failure
                        ELSE ParseHostPort(scheme, hostport)))))

\* File state, file slash state and file host state.
ParseFile(rest) ==
    With(rest, LAMBDA r :
        IF ~(Len(r) >= 2 /\ r[1] \in { "/", "\\" } /\ r[2] \in { "/", "\\" })
        THEN ParsedURL(File, << >>, << >>)
        ELSE With(From(r, 3), LAMBDA after :
                With(SubSeq(after, 1, FirstIn(after, { "/", "\\", "?", "#" }) - 1), LAMBDA buffer :
                    IF buffer = << >> THEN ParsedURL(File, << >>, << >>)
                    ELSE IF Len(buffer) = 2 /\ buffer[1] \in Alpha /\ buffer[2] \in { ":", "|" }
                    THEN ParsedURL(File, << >>, << >>)
                    ELSE With(ParseHost(buffer, FALSE), LAMBDA h :
                            IF ~h.ok THEN Failure
                            ELSE IF h.host = Localhost THEN ParsedURL(File, << >>, << >>)
                            ELSE ParsedURL(File, h.host, << >>)))))

\* Scheme start state and scheme state, on the stripped input.
ParseStripped(s) ==
    With(FirstIn(s, { ":" }), LAMBDA colon :
        IF s = << >> \/ s[1] \notin Alpha THEN Failure
        ELSE IF colon > Len(s) THEN Failure
        ELSE IF \E i \in 1..(colon - 1) : s[i] \notin SchemeChar THEN Failure
        ELSE With(ToLower(SubSeq(s, 1, colon - 1)), LAMBDA scheme :
                With(From(s, colon + 1), LAMBDA rest :
                    IF scheme = File THEN ParseFile(rest)
                    ELSE IF IsSpecial(scheme) THEN ParseAuthority(scheme, SkipSlashes(rest))
                    ELSE IF StartsWith(rest, << "/", "/" >>)
                    THEN ParseAuthority(scheme, From(rest, 3))
                    ELSE ParsedURL(scheme, << >>, << >>))))

\* new URL(input): Failure stands for the TypeError it throws.
ParseURL(input) == With(Strip(input), LAMBDA s : ParseStripped(s))

\* url.host: the host, and ':' and the port when the port is not null.
UrlHost(url) ==
    IF url.port = << >> THEN url.hostname ELSE url.hostname \o << ":" >> \o url.port

\* url.protocol: the scheme and ':'.
UrlProtocol(url) == url.scheme \o << ":" >>

(***************************************************************************)
(* The inputs of a run: what is typed into the form's url field            *)
(***************************************************************************)
Example == << "e", "x", "a", "m", "p", "l", "e" >>

Com == << "c", "o", "m" >>

Httpbin == Http \o << "b", "i", "n" >>

MyApp == << "M", "y", "A", "p", "p" >>

Labels == { Localhost, Example, Com, Http, Httpbin }

\* The largest number of dot-separated labels of a typed host.
MaxLabels == 2

RECURSIVE HostsOf(_)
HostsOf(n) ==
    IF n = 0 THEN { << >> }
    ELSE LET shorter == HostsOf(n - 1)
         IN  shorter \cup Labels
                     \cup { h \o << "." >> \o l : h \in shorter \ { << >> }, l \in Labels }

Hosts == HostsOf(MaxLabels)

SchemeParts ==
    { << >>, << " " >>,
      Http \o << ":" >>, HttpPrefix, Https \o SchemeSuffix,
      << "H", "T", "T", "P" >> \o SchemeSuffix,
      ToLower(MyApp) \o << ":" >>, ToLower(MyApp) \o SchemeSuffix, MyApp \o SchemeSuffix }

PortParts ==
    { << >>, << ":" >>, << ":", "8", "0" >>, << ":", "4", "4", "3" >>,
      << ":", "3", "0", "0", "0" >> }

TailParts ==
    { << >>, << "/", "p", "a", "t", "h", "?", "q", "#", "f" >>, << " ", "u", "r", "l" >> }

\* What is typed: an optional scheme part, a host, an optional port part and
\* an optional tail.
Typings == [ scheme : SchemeParts, host : Hosts, port : PortParts, tail : TailParts ]

TextOf(t) == t.scheme \o t.host \o t.port \o t.tail

\* AuthorizedOriginService, and one value outside it.
Services == { "generic", "netlify", "vercel", "custom-scheme", "other" }

(***************************************************************************)
(* validateUrl                                                             *)
(***************************************************************************)
VARIABLES
    typed,        \* the parts the url field's text was typed from (Pasted when
                  \* the text is a displayed origin)
    url,          \* the form's url field
    service,      \* the form's service field
    pc,           \* "idle", "validating" (inside validateUrl) or "done"
    originParam,  \* the argument of the running validateUrl invocation
    calls,        \* the validateUrl invocations of this validation so far: each
                  \* makes at most one more, so this is also the stack's depth
    validated,    \* what validateUrl returned
    shown,        \* the result whose originDisplay was typed back into url
    isLoading,    \* the form's isLoading flag
    showAddOriginForm,  \* AuthorizedOrigins' flag: the form is displayed
    toasts,       \* the errorToast messages of the latest handler run
    requests,     \* the addAuthorizedOrigin requests of the latest handler run
    added,        \* the origins the latest handler run passed to onAddOrigin
    data,         \* authResponse.data: the cached auth records
    server,       \* the records the backend holds
    nextId,       \* the id the backend gives the next record it creates
    pending       \* the backend calls awaiting their response

\* What validateUrl never touches: the form's flags, the messages and
\* callbacks of its caller, the cache and the backend.
formVars ==
    << isLoading, showAddOriginForm, toasts, requests, added, data, server, nextId,
       pending >>

vars ==
    << typed, url, service, pc, originParam, calls, validated, shown,
       isLoading, showAddOriginForm, toasts, requests, added, data, server, nextId,
       pending >>

Pasted == [ scheme |-> << >>, host |-> << >>, port |-> << >>, tail |-> << "*" >> ]

None == [ type |-> "none" ]

\* The number of backend calls the model follows a run to.
MaxRequests == 2

\* The backend calls of a run, in the order they are started.
Slots == 1..MaxRequests

\* AppsAuthResponse with nothing configured; a record is written as its id.
NoRecords ==
    [ oauth_service_providers |-> << >>,
      oauth_clients |-> << >>,
      authorized_redirect_origins |-> << >> ]

\* An app with the google provider and one client, and no origin yet: the
\* origins section is displayed and its form is open.
Configured ==
    [ oauth_service_providers |-> << 1 >>,
      oauth_clients |-> << 2 >>,
      authorized_redirect_origins |-> << >> ]

\* A backend call that is not started yet.
Free ==
    [ op |-> "none", id |-> 0, data |-> NoRecords, form |-> FALSE, section |-> FALSE,
      answer |-> "none" ]

\* The call p is started and its handler is at its await.
Awaiting(p) == p.op # "none" /\ p.answer = "none"

\* The call p after its handler ran on from its await: fulfilled or rejected.
Answer(p, how) == [ p EXCEPT !.answer = how, !.form = FALSE, !.section = FALSE ]

Success(params) == [ type |-> "success", params |-> params ]

Error(message) == [ type |-> "error", message |-> message ]

\* The number of nested invocations the model follows a validation to.
MaxCalls == 3

\* A check that would only take 'https' for a scheme already present.
StartsWithHttps(s) == StartsWith(s, Https)

\* originParam.startsWith('http')
StartsWithHttp(s) == StartsWith(s, Http)

\* A try block that would keep url.protocol's final ':'.
CustomSchemeTryUnsliced(s) ==
    With(ParseURL(s), LAMBDA u :
        IF ~u.ok THEN Failure ELSE [ ok |-> TRUE, params |-> << UrlProtocol(u) >> ])

\* The try block of case 'custom-scheme': the scheme, or Failure for a throw.
CustomSchemeTry(s) ==
    With(ParseURL(s), LAMBDA u :
        IF ~u.ok THEN Failure
        ELSE With(UrlProtocol(u), LAMBDA protocol :
                [ ok |-> TRUE, params |-> << SubSeq(protocol, 1, Len(protocol) - 1) >> ]))

\* A try block that would read url.hostname, which leaves the port out.
GenericTryHostname(s) ==
    With(ParseURL(s), LAMBDA u :
        IF ~u.ok THEN Failure
        ELSE IF u.hostname = << >> THEN Failure
        ELSE IF Len(Split(u.hostname)) = 1 /\ u.port = << >> THEN Failure
        ELSE [ ok |-> TRUE, params |-> << u.hostname >> ])

\* The try block of case 'generic': the host, or Failure for a throw.
GenericTry(s) ==
    With(ParseURL(s), LAMBDA u :
        IF ~u.ok THEN Failure
        ELSE With(UrlHost(u), LAMBDA host :
                IF host = << >> THEN Failure
                ELSE IF Len(Split(host)) = 1 /\ u.port = << >> THEN Failure
                ELSE [ ok |-> TRUE, params |-> << host >> ]))

originDisplay(origin) ==
    IF origin.service = "vercel" THEN origin.params[2]
    ELSE IF origin.service = "custom-scheme" THEN origin.params[1] \o SchemeSuffix
    ELSE origin.params[1]

TypeOK ==
    /\ typed \in Typings \cup { Pasted }
    /\ typed # Pasted => url = TextOf(typed)
    /\ service \in Services
    /\ pc \in { "idle", "validating", "done" }
    /\ calls \in 0..MaxCalls
    /\ validated.type \in { "none", "success", "error" }
    /\ shown.type \in { "none", "success" }

Init ==
    /\ typed \in Typings
    /\ url = TextOf(typed)
    /\ service \in Services
    /\ pc = "idle"
    /\ originParam = << >>
    /\ calls = 0
    /\ validated = None
    /\ shown = None
    /\ isLoading = FALSE
    /\ showAddOriginForm = TRUE
    /\ toasts = << >>
    /\ requests = << >>
    /\ added = << >>
    /\ data = Configured
    /\ server = Configured
    /\ nextId = 3
    /\ pending = [ i \in Slots |-> Free ]

\* onSubmit calls validateUrl(url, service).
Validate ==
    /\ pc = "idle"
    /\ pc' = "validating"
    /\ originParam' = url
    /\ calls' = 1
    /\ validated' = None
    /\ UNCHANGED << typed, url, service, shown >>
    /\ UNCHANGED formVars

Return(result) ==
    /\ validated' = result
    /\ pc' = "done"
    /\ UNCHANGED << typed, url, service, originParam, calls, shown >>
    /\ UNCHANGED formVars

\* A netlify case that would trim the input.
NetlifyTrimmed ==
    /\ pc = "validating"
    /\ service = "netlify"
    /\ Return(Success(<< Strip(originParam) >>))

Netlify ==
    /\ pc = "validating"
    /\ service = "netlify"
    /\ Return(Success(<< originParam >>))

\* A vercel case that would put the project first.
VercelSwapped ==
    /\ pc = "validating"
    /\ service = "vercel"
    /\ Return(Success(<< originParam, VercelApp >>))

\* A vercel case that would leave the literal 'vercel.app' out.
VercelProjectOnly ==
    /\ pc = "validating"
    /\ service = "vercel"
    /\ Return(Success(<< originParam >>))

Vercel ==
    /\ pc = "validating"
    /\ service = "vercel"
    /\ Return(Success(<< VercelApp, originParam >>))

\* A custom-scheme case that would fall back to the http prefix as the
\* generic case does.
CustomSchemeWithFallback ==
    /\ pc = "validating"
    /\ service = "custom-scheme"
    /\ IF CustomSchemeTry(originParam).ok
       THEN Return(Success(CustomSchemeTry(originParam).params))
       ELSE IF ~StartsWith(originParam, Http) /\ calls < MaxCalls
       THEN /\ originParam' = Http \o SchemeSuffix \o originParam
            /\ calls' = calls + 1
            /\ UNCHANGED << typed, url, service, pc, validated, shown >>
            /\ UNCHANGED formVars
       ELSE Return(Error("Invalid scheme."))

CustomScheme ==
    /\ pc = "validating"
    /\ service = "custom-scheme"
    /\ IF CustomSchemeTry(originParam).ok
       THEN Return(Success(CustomSchemeTry(originParam).params))
       ELSE Return(Error("Invalid scheme."))

GenericSuccess ==
    /\ pc = "validating"
    /\ service = "generic"
    /\ GenericTry(originParam).ok
    /\ Return(Success(GenericTry(originParam).params))

\* A catch block that would also write the prefixed text into the url field.
GenericRetryWritesUrl ==
    /\ pc = "validating"
    /\ service = "generic"
    /\ ~GenericTry(originParam).ok
    /\ ~StartsWithHttp(originParam)
    /\ calls < MaxCalls
    /\ originParam' = HttpPrefix \o originParam
    /\ url' = HttpPrefix \o originParam
    /\ calls' = calls + 1
    /\ UNCHANGED << typed, service, pc, validated, shown >>
    /\ UNCHANGED formVars

\* The catch block's recursive call, whose result is returned as it is.
GenericRetry ==
    /\ pc = "validating"
    /\ service = "generic"
    /\ ~GenericTry(originParam).ok
    /\ ~StartsWithHttp(originParam)
    /\ calls < MaxCalls
    /\ originParam' = HttpPrefix \o originParam
    /\ calls' = calls + 1
    /\ UNCHANGED << typed, url, service, pc, validated, shown >>
    /\ UNCHANGED formVars

\* A generic catch block that would report the custom-scheme message.
GenericInvalidScheme ==
    /\ pc = "validating"
    /\ service = "generic"
    /\ ~GenericTry(originParam).ok
    /\ StartsWithHttp(originParam)
    /\ Return(Error("Invalid scheme."))

GenericInvalid ==
    /\ pc = "validating"
    /\ service = "generic"
    /\ ~GenericTry(originParam).ok
    /\ StartsWithHttp(originParam)
    /\ Return(Error("Invalid URL."))

\* A default branch that would accept the input as the netlify case does.
UnknownTypeKeepsInput ==
    /\ pc = "validating"
    /\ service \notin { "netlify", "vercel", "custom-scheme", "generic" }
    /\ Return(Success(<< originParam >>))

UnknownType ==
    /\ pc = "validating"
    /\ service \notin { "netlify", "vercel", "custom-scheme", "generic" }
    /\ Return(Error("Unknown type"))

\* The origin a successful validation made is displayed by originDisplay, and
\* that text is typed into the form again.
Redisplay ==
    /\ pc = "done"
    /\ validated.type = "success"
    /\ shown = None
    /\ url' = originDisplay([ service |-> service, params |-> validated.params ])
    /\ typed' = Pasted
    /\ shown' = validated
    /\ pc' = "idle"
    /\ validated' = None
    /\ originParam' = << >>
    /\ calls' = 0
    /\ UNCHANGED service
    /\ UNCHANGED formVars

Next ==
    \/ Validate
    \/ Netlify
    \/ Vercel
    \/ CustomScheme
    \/ GenericSuccess
    \/ GenericRetry
    \/ GenericInvalid
    \/ UnknownType
    \/ Redisplay

Spec == Init /\ [][Next]_vars

(***************************************************************************)
(* The origins form, the backend calls and the cached auth data            *)
(***************************************************************************)
\* validateUrl as the function it is: the result for (originParam, service).
RECURSIVE validateUrl(_, _)
validateUrl(text, kind) ==
    IF kind = "netlify" THEN Success(<< text >>)
    ELSE IF kind = "vercel" THEN Success(<< VercelApp, text >>)
    ELSE IF kind = "custom-scheme"
    THEN With(CustomSchemeTry(text), LAMBDA try :
            IF try.ok THEN Success(try.params) ELSE Error("Invalid scheme."))
    ELSE IF kind = "generic"
    THEN With(GenericTry(text), LAMBDA try :
            IF try.ok THEN Success(try.params)
            ELSE IF ~StartsWithHttp(text) THEN validateUrl(HttpPrefix \o text, kind)
            ELSE Error("Invalid URL."))
    ELSE Error("Unknown type")

\* The url field before anything is typed.
NothingTyped == [ scheme |-> << >>, host |-> << >>, port |-> << >>, tail |-> << >> ]

\* What the user types into the form in these runs: nothing, 'localhost',
\* 'example.com' and 'MyApp://'.
FormTypings ==
    { NothingTyped,
      [ NothingTyped EXCEPT !.host = Localhost ],
      [ NothingTyped EXCEPT !.host = Example \o << "." >> \o Com ],
      [ NothingTyped EXCEPT !.scheme = MyApp \o SchemeSuffix ] }

\* The values of serviceOptions.
ServiceOptions == { "generic", "vercel", "netlify", "custom-scheme" }

\* data.oauth_service_providers?.find((p) => p.provider_name === 'google'):
\* every provider the dashboard creates is google's.
googleProvider(d) == d.oauth_service_providers # << >>

\* AppAuth renders AuthorizedOrigins.
SectionShown(d) == googleProvider(d) /\ d.oauth_clients # << >>

\* AuthorizedOrigins renders AuthorizedOriginsForm.
FormShown == SectionShown(data) /\ showAddOriginForm

handleAddOrigin(d, origin) ==
    [ d EXCEPT !.authorized_redirect_origins = << origin >> \o @ ]

handleRemoveOrigin(d, origin) ==
    [ d EXCEPT !.authorized_redirect_origins = SelectSeq(@, LAMBDA o : o # origin) ]

handleAddProvider(d, provider) ==
    [ d EXCEPT !.oauth_service_providers = << provider >> \o @ ]

handleAddClient(d, client) ==
    [ d EXCEPT !.oauth_clients = << client >> \o @ ]

handleDeleteClient(d, client) ==
    [ d EXCEPT !.oauth_clients = SelectSeq(@, LAMBDA c : c # client) ]

\* A backend call in flight: the record it is about, the data its completion
\* handler closed over when it was started, and for the form's call whether
\* the form and the section that started it are still mounted.
Request(op, id) ==
    [ op |-> op, id |-> id, data |-> data,
      form |-> op = "addOrigin", section |-> op = "addOrigin", answer |-> "none" ]

\* The body of addAuthorizedOrigin's POST: JSON.stringify({ service, params }).
addAuthorizedOrigin(kind, params) == [ service |-> kind, params |-> params ]

\* The call is the next one of the run.
Issue(request) ==
    \E i \in Slots :
        /\ pending[i] = Free
        /\ \A j \in Slots : j < i => pending[j] # Free
        /\ pending' = [ pending EXCEPT ![i] = request ]

\* A handler starts: nothing is shown or called back yet.
Quiet == toasts' = << >> /\ requests' = << >> /\ added' = << >>

\* validateUrl's frames are gone when onSubmit's synchronous part ends.
Finish ==
    /\ pc' = "idle"
    /\ originParam' = << >>
    /\ calls' = 0
    /\ validated' = None

\* React renders newData with AuthorizedOrigins asked to show its form or
\* not: a section that (re)appears opens its form when there is no origin, a
\* form that (re)appears starts from its initial state, and the calls of an
\* unmounted form or section keep running with their closures.
Render(newData, show, loading, calling) ==
    LET section == SectionShown(data) /\ SectionShown(newData)
        form == FormShown /\ section /\ show
        left(p) == IF ~Awaiting(p) THEN p
                   ELSE [ p EXCEPT !.form = @ /\ form, !.section = @ /\ section ]
    IN  /\ data' = newData
        /\ showAddOriginForm' =
              IF ~SectionShown(newData) THEN FALSE
              ELSE IF section THEN show
              ELSE newData.authorized_redirect_origins = << >>
        /\ isLoading' = (form /\ loading)
        /\ typed' = IF form THEN typed ELSE NothingTyped
        /\ url' = IF form THEN url ELSE << >>
        /\ service' = IF form THEN service ELSE "generic"
        /\ pending' = [ i \in Slots |-> left(calling[i]) ]

FormInit ==
    /\ typed = NothingTyped
    /\ url = << >>
    /\ service = "generic"
    /\ pc = "idle"
    /\ originParam = << >>
    /\ calls = 0
    /\ validated = None
    /\ shown = None
    /\ isLoading = FALSE
    /\ data \in { NoRecords, Configured }
    /\ server = data
    /\ nextId = IF data = NoRecords THEN 1 ELSE 3
    /\ showAddOriginForm = SectionShown(data)
    /\ toasts = << >>
    /\ requests = << >>
    /\ added = << >>
    /\ pending = [ i \in Slots |-> Free ]

\* TextInput's onChange={setUrl}.
SetUrl ==
    \E t \in FormTypings :
        /\ pc = "idle"
        /\ FormShown
        /\ typed' = t
        /\ url' = TextOf(t)
        /\ Quiet
        /\ UNCHANGED << service, pc, originParam, calls, validated, shown >>
        /\ UNCHANGED << isLoading, showAddOriginForm, data, server, nextId, pending >>

\* Select's onChange: setService(v.value).
SetService ==
    \E v \in ServiceOptions :
        /\ pc = "idle"
        /\ FormShown
        /\ service' = v
        /\ Quiet
        /\ UNCHANGED << typed, url, pc, originParam, calls, validated, shown >>
        /\ UNCHANGED << isLoading, showAddOriginForm, data, server, nextId, pending >>

\* onSubmit up to its call of validateUrl(url, service); the model follows a
\* submission only while it can follow its backend call.
Submit ==
    /\ pc = "idle"
    /\ FormShown
    /\ \E i \in Slots : pending[i] = Free
    /\ isLoading' = TRUE
    /\ pc' = "validating"
    /\ originParam' = url
    /\ calls' = 1
    /\ validated' = None
    /\ Quiet
    /\ UNCHANGED << typed, url, service, shown >>
    /\ UNCHANGED << showAddOriginForm, data, server, nextId, pending >>

\* An onSubmit that would show the message and go on to the request, the
\* return missing.
SubmitInvalidFallsThrough ==
    /\ pc = "done"
    /\ validated.type = "error"
    /\ toasts' = << validated.message >>
    /\ requests' = << addAuthorizedOrigin(service, << url >>) >>
    /\ Issue(Request("addOrigin", 0))
    /\ Finish
    /\ UNCHANGED << typed, url, service, shown >>
    /\ UNCHANGED << isLoading, showAddOriginForm, added, data, server, nextId >>

\* onSubmit when validateUrl returned an error: the toast, the return and
\* the finally block.
SubmitInvalid ==
    /\ pc = "done"
    /\ validated.type = "error"
    /\ toasts' = << validated.message >>
    /\ isLoading' = FALSE
    /\ Finish
    /\ UNCHANGED << typed, url, service, shown >>
    /\ UNCHANGED << showAddOriginForm, requests, added, data, server, nextId, pending >>

\* An onSubmit that would send the text of the url field instead of the
\* validated params.
SubmitRequestRaw ==
    /\ pc = "done"
    /\ validated.type = "success"
    /\ requests' = << addAuthorizedOrigin(service, << url >>) >>
    /\ Issue(Request("addOrigin", 0))
    /\ Finish
    /\ UNCHANGED << typed, url, service, shown >>
    /\ UNCHANGED << isLoading, showAddOriginForm, toasts, added, data, server, nextId >>

\* onSubmit when validateUrl succeeded, up to its await: addAuthorizedOrigin
\* is called with the form's service and the validated params.
SubmitRequest ==
    /\ pc = "done"
    /\ validated.type = "success"
    /\ requests' = << addAuthorizedOrigin(service, validated.params) >>
    /\ Issue(Request("addOrigin", 0))
    /\ Finish
    /\ UNCHANGED << typed, url, service, shown >>
    /\ UNCHANGED << isLoading, showAddOriginForm, toasts, added, data, server, nextId >>

\* The form's Cancel button: onCancel.
Cancel ==
    /\ pc = "idle"
    /\ FormShown
    /\ Render(data, FALSE, isLoading, pending)
    /\ Quiet
    /\ UNCHANGED << pc, originParam, calls, validated, shown, server, nextId >>

\* The 'Add an origin' button.
ShowForm ==
    /\ pc = "idle"
    /\ SectionShown(data)
    /\ ~showAddOriginForm
    /\ Render(data, TRUE, isLoading, pending)
    /\ Quiet
    /\ UNCHANGED << pc, originParam, calls, validated, shown, server, nextId >>

\* A handler that starts a backend call and awaits it.
Start(request) ==
    /\ pc = "idle"
    /\ Issue(request)
    /\ Quiet
    /\ UNCHANGED << typed, url, service, pc, originParam, calls, validated, shown >>
    /\ UNCHANGED << isLoading, showAddOriginForm, data, server, nextId >>

\* AuthorizedOriginRow's Delete button, up to its await.
ClickRemoveOrigin ==
    \E o \in Range(data.authorized_redirect_origins) :
        /\ SectionShown(data)
        /\ Start(Request("removeOrigin", o))

\* AddClientForm's onSubmit with its fields filled in, up to its await.
SubmitClient ==
    /\ googleProvider(data)
    /\ Start(Request("addClient", 0))

\* Client's Delete button, up to its await.
ClickDeleteClient ==
    \E c \in Range(data.oauth_clients) :
        /\ googleProvider(data)
        /\ Start(Request("deleteClient", c))

\* addGoogleProvider, up to its await.
ClickAddProvider ==
    /\ ~googleProvider(data)
    /\ Start(Request("addProvider", 0))

\* The rest of a handler after its await, for the call in place i.
Resume(i, op) ==
    /\ pc = "idle"
    /\ pending[i].op = op
    /\ Awaiting(pending[i])
    /\ UNCHANGED << pc, originParam, calls, validated, shown >>

\* What the form's isLoading is after the finally block of the call p: the
\* setter of an unmounted form does nothing.
Finally(p) == IF p.form THEN FALSE ELSE isLoading

\* The backend creates a record and gives it the next id.
Created == nextId' = nextId + 1

\* A catch block that would lack the finally block.
AddOriginFailedStillLoading(i) ==
    /\ Resume(i, "addOrigin")
    /\ toasts' = << "Error creating origin." >>
    /\ requests' = << >>
    /\ added' = << >>
    /\ pending' = [ pending EXCEPT ![i] = Answer(@, "rejected") ]
    /\ UNCHANGED << typed, url, service, isLoading, showAddOriginForm, data, server, nextId >>

\* onSubmit after its await, the call rejected: the catch and finally blocks.
AddOriginFailed(i) ==
    /\ Resume(i, "addOrigin")
    /\ toasts' = << "Error creating origin." >>
    /\ requests' = << >>
    /\ added' = << >>
    /\ Render(data, showAddOriginForm, Finally(pending[i]),
              [ pending EXCEPT ![i] = Answer(@, "rejected") ])
    /\ UNCHANGED << server, nextId >>

\* onSubmit after its await, the call fulfilled: onAddOrigin(resp.origin),
\* which is setShowAddOriginForm(false) and handleAddOrigin, then the finally
\* block.
AddOriginSucceeded(i) ==
    /\ Resume(i, "addOrigin")
    /\ Created
    /\ server' = handleAddOrigin(server, nextId)
    /\ added' = << nextId >>
    /\ toasts' = << >>
    /\ requests' = << >>
    /\ Render(handleAddOrigin(pending[i].data, nextId),
              IF pending[i].section THEN FALSE ELSE showAddOriginForm,
              Finally(pending[i]),
              [ pending EXCEPT ![i] = Answer(@, "fulfilled") ])

\* A handler's cache update after its await: mutate(newData).
Mutate(i, newData) ==
    /\ Quiet
    /\ Render(newData, showAddOriginForm, isLoading,
              [ pending EXCEPT ![i] = Answer(@, "fulfilled") ])

\* AuthorizedOriginRow's handleRemoveOrigin after its await, fulfilled.
RemoveOriginSucceeded(i) ==
    /\ Resume(i, "removeOrigin")
    /\ pending[i].id \in Range(server.authorized_redirect_origins)
    /\ server' = handleRemoveOrigin(server, pending[i].id)
    /\ Mutate(i, handleRemoveOrigin(pending[i].data, pending[i].id))
    /\ UNCHANGED nextId

\* AddClientForm's onSubmit after its await, fulfilled.
AddClientSucceeded(i) ==
    /\ Resume(i, "addClient")
    /\ Created
    /\ server' = handleAddClient(server, nextId)
    /\ Mutate(i, handleAddClient(pending[i].data, nextId))

\* Client's handleDelete after its await, fulfilled.
DeleteClientSucceeded(i) ==
    /\ Resume(i, "deleteClient")
    /\ pending[i].id \in Range(server.oauth_clients)
    /\ server' = handleDeleteClient(server, pending[i].id)
    /\ Mutate(i, handleDeleteClient(pending[i].data, pending[i].id))
    /\ UNCHANGED nextId

\* addGoogleProvider after its await, fulfilled.
AddProviderSucceeded(i) ==
    /\ Resume(i, "addProvider")
    /\ Created
    /\ server' = handleAddProvider(server, nextId)
    /\ Mutate(i, handleAddProvider(pending[i].data, nextId))

\* The catch and finally blocks of the other handlers: a toast, and the
\* cache as it is.
CallFailed(i) ==
    /\ pc = "idle"
    /\ pending[i].op \in { "removeOrigin", "addClient", "deleteClient", "addProvider" }
    /\ Awaiting(pending[i])
    /\ toasts' = << "Error." >>
    /\ requests' = << >>
    /\ added' = << >>
    /\ pending' = [ pending EXCEPT ![i] = Answer(@, "rejected") ]
    /\ UNCHANGED << typed, url, service, pc, originParam, calls, validated, shown >>
    /\ UNCHANGED << isLoading, showAddOriginForm, data, server, nextId >>

\* The response to the call in place i arrives and its handler resumes.
Respond(i) ==
    \/ AddOriginSucceeded(i)
    \/ AddOriginFailed(i)
    \/ RemoveOriginSucceeded(i)
    \/ AddClientSucceeded(i)
    \/ DeleteClientSucceeded(i)
    \/ AddProviderSucceeded(i)
    \/ CallFailed(i)

\* onSubmit runs to its await or its return without another handler in
\* between.
RunOnSubmit ==
    \/ Netlify
    \/ Vercel
    \/ CustomScheme
    \/ GenericSuccess
    \/ GenericRetry
    \/ GenericInvalid
    \/ SubmitInvalid
    \/ SubmitRequest

FormNext ==
    \/ SetUrl
    \/ SetService
    \/ Submit
    \/ RunOnSubmit
    \/ Cancel
    \/ ShowForm
    \/ ClickRemoveOrigin
    \/ SubmitClient
    \/ ClickDeleteClient
    \/ ClickAddProvider
    \/ \E i \in Slots : Respond(i)

SpecForm == FormInit /\ [][FormNext]_vars

\* The event loop runs a started handler on, and every backend call is
\* answered and its handler resumed.
FairSpecForm ==
    /\ SpecForm
    /\ WF_vars(RunOnSubmit)
    /\ \A i \in Slots : WF_vars(Respond(i))

(***************************************************************************)
(* Properties of validateUrl                                               *)
(***************************************************************************)
\* validateUrl has returned for the text typed into the form.
Done == pc = "done"

DoneFor(kind) == pc = "done" /\ service = kind

\* A host typed as labels of lower-case letters.
IsHostname(h) == h # << >> /\ \A i \in DOMAIN h : h[i] \in Lower \cup { "." }

IsDotted(h) == \E i \in DOMAIN h : h[i] = "."

\* A port part that writes digits.
ExplicitPorts == { p \in PortParts : Len(p) > 1 }

\* C1: for 'generic', an input whose host is one bare label is rejected
\* with 'Invalid URL.' when it writes no port and accepted when it writes a
\* port explicitly, whatever that port is (the scheme's default included).
C1_BareLabelNeedsExplicitPort ==
    ( /\ DoneFor("generic")
      /\ typed # Pasted
      /\ typed.scheme \in { << >>, Http \o SchemeSuffix, Https \o SchemeSuffix }
      /\ IsHostname(typed.host) /\ ~IsDotted(typed.host)
      /\ typed.tail = << >> )
    => /\ typed.port = << >> => validated = Error("Invalid URL.")
       /\ typed.port \in ExplicitPorts => validated.type = "success"

\* C2: for 'generic', a validation makes at most two validateUrl invocations;
\* the second is made only after the first attempt failed on an input that
\* does not start with 'http', its argument is 'http://' + input, and it is
\* not retried; a running invocation can always take its next step.
C2_AtMostOneRetry ==
    /\ calls <= 2
    /\ calls = 2 =>
          /\ service = "generic"
          /\ ~StartsWith(url, Http)
          /\ ~GenericTry(url).ok
          /\ originParam = Http \o SchemeSuffix \o url
    /\ calls = 1 /\ pc # "idle" => originParam = url
    /\ pc = "validating" => ENABLED Next

\* C2's case: a validation that retried once and then returned.
C2_Witness ==
    /\ DoneFor("generic")
    /\ calls = 2
    /\ url = Localhost
    /\ validated = Error("Invalid URL.")

\* C3: for 'generic', a dotted hostname typed without a scheme is accepted
\* with params = [that hostname], by the http-prefixed retry; also when its
\* first characters are 'http'.
C3_SchemelessDottedHostAccepted ==
    ( /\ DoneFor("generic")
      /\ typed # Pasted
      /\ typed.scheme = << >> /\ typed.port = << >> /\ typed.tail = << >>
      /\ IsHostname(typed.host) /\ IsDotted(typed.host) )
    => validated = Success(<< url >>) /\ calls = 2

\* C4: validating the originDisplay text of a successful result again, with
\* the same service, succeeds with the same params.
C4_RevalidationYieldsSameParams ==
    (Done /\ shown # None) => validated = shown

\* C5: for 'generic', the result is the error 'Invalid URL.' exactly when the
\* direct attempt fails and either the input starts with 'http' or the
\* http-prefixed attempt fails too; otherwise it is a success; no other
\* message is returned.
C5_InvalidUrlExactlyWhenAttemptsFail ==
    DoneFor("generic") =>
        LET direct == GenericTry(url).ok
            prefixed == GenericTry(Http \o SchemeSuffix \o url).ok
            fails == ~direct /\ (StartsWith(url, Http) \/ ~prefixed)
        IN  /\ fails => validated = Error("Invalid URL.")
            /\ ~fails => validated.type = "success"

\* C5's case (a): an input that starts with 'http' fails directly and is not
\* retried, though the retry would have succeeded.
C5_Witness ==
    /\ DoneFor("generic")
    /\ StartsWith(url, Http)
    /\ calls = 1
    /\ validated = Error("Invalid URL.")
    /\ GenericTry(Http \o SchemeSuffix \o url).ok

\* The port a typing's host is followed by in url.host: the digits typed,
\* unless none are typed or they are the scheme's default port.
TypedPort(t) ==
    IF t.port \notin ExplicitPorts THEN << >>
    ELSE IF t.scheme = Http \o SchemeSuffix /\ t.port = << ":", "8", "0" >> THEN << >>
    ELSE IF t.scheme = Https \o SchemeSuffix /\ t.port = << ":", "4", "4", "3" >> THEN << >>
    ELSE t.port

\* C6: for 'generic', a success has exactly one param: url.host of the text
\* that parsed, which is the typed host and its port, without the scheme,
\* the path, the query and the fragment.
C6_ParamsIsTheHost ==
    (DoneFor("generic") /\ validated.type = "success") =>
        /\ Len(validated.params) = 1
        /\ validated.params[1] = UrlHost(ParseURL(originParam))
        /\ \A i \in DOMAIN validated.params[1] :
              validated.params[1][i] \notin { "/", "?", "#", "@", " " }
        /\ ( /\ typed # Pasted
             /\ typed.scheme \in { Http \o SchemeSuffix, Https \o SchemeSuffix }
             /\ IsHostname(typed.host)
             /\ typed.tail = << >> \/ typed.tail[1] \in { "/", "?", "#" } )
           => validated.params[1] = typed.host \o TypedPort(typed)

\* C6's case: 'https://example.com:3000/path?q#f' gives ['example.com:3000'].
C6_Witness ==
    /\ DoneFor("generic")
    /\ typed # Pasted
    /\ typed.scheme = Https \o SchemeSuffix
    /\ typed.host = Example \o << "." >> \o Com
    /\ typed.port = << ":", "3", "0", "0", "0" >>
    /\ typed.tail = << "/", "p", "a", "t", "h", "?", "q", "#", "f" >>
    /\ validated = Success(<< Example \o << "." >> \o Com \o << ":", "3", "0", "0", "0" >> >>)

\* The text before the first ':' of s.
BeforeColon(s) == SubSeq(s, 1, FirstIn(s, { ":" }) - 1)

\* C7, as claimed: for 'custom-scheme', an input that parses gives
\* params = [the input's text before its first ':'], upper case included.
C7_SchemeAsTyped ==
    (DoneFor("custom-scheme") /\ ParseURL(url).ok)
    => validated = Success(<< BeforeColon(url) >>)

\* C7, amended: for 'custom-scheme', an input that parses gives
\* params = [scheme], the text before the first ':' of the input without
\* its leading and trailing spaces, in lower case.
C7_SchemeLowerCased ==
    (DoneFor("custom-scheme") /\ ParseURL(url).ok)
    => validated = Success(<< ToLower(BeforeColon(Strip(url))) >>)

\* C7's case: 'MyApp://...' gives ['myapp'].
C7_Witness ==
    /\ DoneFor("custom-scheme")
    /\ typed # Pasted
    /\ typed.scheme = MyApp \o SchemeSuffix
    /\ validated = Success(<< << "m", "y", "a", "p", "p" >> >>)

\* C8: for 'custom-scheme', an input that does not parse gives the error
\* 'Invalid scheme.' from the one invocation made: nothing is retried and
\* nothing is prepended.
C8_InvalidSchemeWithoutRetry ==
    (DoneFor("custom-scheme") /\ ~ParseURL(url).ok)
    => /\ validated = Error("Invalid scheme.")
       /\ calls = 1
       /\ originParam = url

\* C8's case: a text with a space in it ('localhost url') that the http
\* prefix would not help either way.
C8_Witness ==
    /\ DoneFor("custom-scheme")
    /\ url = Localhost \o << " ", "u", "r", "l" >>
    /\ validated = Error("Invalid scheme.")

\* C9: for 'netlify', every input, the empty one included, succeeds with
\* params = [input], the input unchanged.
C9_NetlifyKeepsInput ==
    DoneFor("netlify") => validated = Success(<< url >>) /\ calls = 1

\* C9's case: the empty input.
C9_Witness ==
    /\ DoneFor("netlify")
    /\ url = << >>
    /\ validated = Success(<< << >> >>)

\* C10: for 'vercel', every input succeeds with exactly two params: the
\* literal 'vercel.app', then the input unchanged.
C10_VercelParams ==
    DoneFor("vercel") =>
        /\ validated.type = "success"
        /\ Len(validated.params) = 2
        /\ validated.params[1] = << "v", "e", "r", "c", "e", "l", ".", "a", "p", "p" >>
        /\ validated.params[2] = url

\* C10's case: an input with a space before it, kept as typed.
C10_Witness ==
    /\ DoneFor("vercel")
    /\ url = << " " >> \o Example
    /\ validated = Success(<< VercelApp, << " " >> \o Example >>)

\* The four service kinds validateUrl has a case for.
Kinds == { "generic", "netlify", "vercel", "custom-scheme" }

\* C11: for a service outside the four kinds, every input gives the error
\* 'Unknown type' from the one invocation made, never a success.
C11_UnknownTypeOutsideKinds ==
    (Done /\ service \notin Kinds)
    => /\ validated = Error("Unknown type")
       /\ calls = 1

\* C11's case: a text the generic case accepts, under a service that is
\* none of the four kinds.
C11_Witness ==
    /\ Done
    /\ service = "other"
    /\ url = Https \o SchemeSuffix \o Example \o << "." >> \o Com
    /\ GenericTry(url).ok
    /\ validated = Error("Unknown type")

\* C12: every success carries a non-empty params list: one element for
\* generic, netlify and custom-scheme, two for vercel.
C12_ParamsNeverEmpty ==
    (Done /\ validated.type = "success")
    => /\ validated.params # << >>
       /\ service \in { "generic", "netlify", "custom-scheme" } => Len(validated.params) = 1
       /\ service = "vercel" => Len(validated.params) = 2
       /\ service \in Kinds

\* C12's case: the empty input under vercel still gives two params.
C12_Witness ==
    /\ DoneFor("vercel")
    /\ url = << >>
    /\ validated = Success(<< VercelApp, << >> >>)

\* C16: the errors are a closed set tied to the service: netlify and vercel
\* never fail, custom-scheme fails only with 'Invalid scheme.', generic only
\* with 'Invalid URL.', and 'Unknown type' is returned exactly for a service
\* outside the four kinds.
C16_ErrorsByService ==
    /\ (Done /\ service \in { "netlify", "vercel" }) => validated.type = "success"
    /\ (Done /\ validated.type = "error") =>
          /\ service = "custom-scheme" => validated.message = "Invalid scheme."
          /\ service = "generic" => validated.message = "Invalid URL."
          /\ service \notin Kinds <=> validated.message = "Unknown type"
          /\ validated.message \in { "Invalid scheme.", "Invalid URL.", "Unknown type" }

\* C16's case: a generic input that starts with 'http' and has no host fails
\* with the generic message.
C16_Witness ==
    /\ DoneFor("generic")
    /\ url = Http \o << ":" >>
    /\ validated = Error("Invalid URL.")

(***************************************************************************)
(* Properties of the form's submission and of the cached auth data         *)
(***************************************************************************)
\* C13: when validateUrl returned an error, the submission ends at once: its
\* message is shown once, no request is issued, onAddOrigin is not called,
\* the cache and the backend keep their records, the form stays displayed
\* with url and service as they are, isLoading is reset and nothing of the
\* submission is left running that could retry it.
C13_ValidationErrorEndsSubmission ==
    [][ (pc = "done" /\ validated.type = "error") =>
            /\ toasts' = << validated.message >>
            /\ requests' = << >>
            /\ pending' = pending
            /\ added' = << >>
            /\ data' = data
            /\ server' = server
            /\ FormShown /\ FormShown'
            /\ url' = url
            /\ service' = service
            /\ isLoading' = FALSE
            /\ pc' = "idle" ]_vars

\* C13's case: 'localhost' submitted as a website, rejected, with no backend
\* call started.
C13_Witness ==
    /\ pc = "idle"
    /\ FormShown
    /\ url = Localhost
    /\ service = "generic"
    /\ toasts = << "Invalid URL." >>
    /\ requests = << >>
    /\ \A i \in Slots : pending[i] = Free

\* The backend calls a step starts.
Started == { i \in Slots : pending[i] = Free /\ pending'[i] # Free }

\* C14: a submission whose validation succeeded issues exactly one
\* addAuthorizedOrigin request, with the form's service and the params
\* validateUrl gives for the submitted (url, service); no other step issues
\* such a request.
C14_OneRequestWithValidatedParams ==
    [][ IF pc = "done" /\ validated.type = "success"
        THEN /\ validateUrl(url, service) = validated
             /\ requests' = << [ service |-> service, params |-> validated.params ] >>
             /\ Cardinality(Started) = 1
             /\ \A i \in Started : pending'[i].op = "addOrigin"
        ELSE /\ requests' \in { << >>, requests }
             /\ \A i \in Started : pending'[i].op # "addOrigin" ]_vars

\* C14's case: 'MyApp://' submitted as an app scheme is sent as ['myapp'].
C14_Witness ==
    /\ pc = "idle"
    /\ url = MyApp \o SchemeSuffix
    /\ service = "custom-scheme"
    /\ requests = << [ service |-> "custom-scheme",
                       params |-> << << "m", "y", "a", "p", "p" >> >> ] >>
    /\ \E i \in Slots : pending[i].op = "addOrigin"

\* C15: validateUrl is a function of (input, service): whatever ran before
\* it or is awaiting its response, the result is validateUrl(url, service);
\* and while it runs, the form's fields and flags, the messages, the requests,
\* the cache, the backend and the calls in flight stay as they are.
C15_ValidateUrlIsAFunction ==
    /\ [](Done => validated = validateUrl(url, service))
    /\ [][ pc = "validating" =>
              UNCHANGED << url, service, isLoading, showAddOriginForm, toasts,
                           requests, added, data, server, nextId, pending >> ]_vars

\* C15's case: 'example.com' validated again after an earlier submission of
\* the form ran to its end, its backend call rejected.
C15_Witness ==
    /\ Done
    /\ calls = 2
    /\ validated = Success(<< Example \o << "." >> \o Com >>)
    /\ \E i \in Slots : pending[i].op = "addOrigin" /\ pending[i].answer = "rejected"

\* No backend call is awaiting its response and no handler is running.
Settled == pc = "idle" /\ \A i \in Slots : ~Awaiting(pending[i])

\* The cached lists hold the records the backend holds.
CacheIsCurrent ==
    /\ Range(data.authorized_redirect_origins) = Range(server.authorized_redirect_origins)
    /\ Range(data.oauth_clients) = Range(server.oauth_clients)
    /\ Range(data.oauth_service_providers) = Range(server.oauth_service_providers)

\* C17: when two changes made with different controls were started from the
\* same rendered data, both were fulfilled and both completion handlers have
\* run, nothing else having been started, the cached data reflects both: it
\* holds the records the backend holds.
C17_CacheReflectsBothChanges ==
    \A i, j \in Slots :
        ( /\ Settled
          /\ i < j
          /\ pending[i].answer = "fulfilled"
          /\ pending[j].answer = "fulfilled"
          /\ pending[i].data = pending[j].data
          /\ pending[i].op # pending[j].op
          /\ \A k \in Slots \ { i, j } : pending[k] = Free )
        => CacheIsCurrent

\* A submission of the displayed form is running or awaiting its response.
InProgress ==
    \/ pc # "idle"
    \/ \E i \in Slots :
          pending[i].op = "addOrigin" /\ Awaiting(pending[i]) /\ pending[i].form

\* C18: isLoading is true only while a submission of the form is in progress;
\* each exit of a submission resets it: the validation error, the fulfilled
\* call, after onAddOrigin got the origin the backend returned and without a
\* message, and the rejected call, after its message and without onAddOrigin;
\* and once true it becomes false again.
C18_LoadingOnlyWhileSubmitting ==
    /\ [](isLoading => InProgress)
    /\ [][ /\ (pc = "done" /\ validated.type = "error") => ~isLoading'
           /\ \A i \in Slots :
                (pending[i].op = "addOrigin" /\ Awaiting(pending[i]) /\ ~Awaiting(pending'[i])) =>
                    /\ pending[i].form => ~isLoading'
                    /\ \/ /\ added' = << nextId >>
                          /\ nextId \in Range(server'.authorized_redirect_origins)
                          /\ nextId \in Range(data'.authorized_redirect_origins)
                          /\ toasts' = << >>
                       \/ /\ added' = << >>
                          /\ toasts' = << "Error creating origin." >>
                          /\ data' = data /\ server' = server ]_vars
    /\ isLoading ~> ~isLoading

\* C18's case: a submission whose backend call was rejected: the message is
\* shown, the form is still displayed and no longer loading.
C18_Witness ==
    /\ pc = "idle"
    /\ FormShown
    /\ ~isLoading
    /\ toasts = << "Error creating origin." >>
    /\ added = << >>
    /\ \E i \in Slots : pending[i].op = "addOrigin" /\ pending[i].answer = "rejected"

=============================================================================
